---- MODULE Spec2Model ----
\* Linked lists of overoxidize/listless:
\*   src/src/first.rs  the owned stack list  (Option<Box<Node<T>>> links)
\*   src/src/third.rs  the persistent list   (Option<Rc<Node<T>>> links)
\* The heap is a set of numbered nodes. A node is allocated once, at a fresh
\* address, and `freed` counts how often it has been reclaimed.
EXTENDS Integers, Sequences, FiniteSets, TLC

\* ---------------------------------------------------------------- bounds
\* the number of nodes a run allocates
MaxNodes == 3

\* ---------------------------------------------------------------- values
None == 0
NoVal == 0
Addrs == 1..MaxNodes
\* Both lists are generic in T and never inspect an element, so the elements
\* inserted are distinct labels (the k-th element inserted is k) and one further
\* value, Fresh, is what callers write through a mutable reference.
Fresh == MaxNodes + 1
Elems == 1..Fresh
\* three list variables (a list and two lists derived from it) and two cursors
Slots == {1, 2, 3}
CursorIds == {1, 2}

VARIABLES
  prog,      \* which list module the program exercises: "first" or "third"
  elem,      \* Node.elem of every node (NoVal: not allocated, moved out or destroyed)
  next,      \* Node.next of every node
  rc,        \* strong count of the Rc that holds the node (third.rs)
  freed,     \* how many times the node has been reclaimed
  alloc,     \* number of nodes allocated so far; the next address is alloc + 1
  head,      \* first.rs List.head
  mode,      \* first.rs: "list", "into_iter", "dropping", "dropped"
  cur_link,  \* first.rs Drop::drop local
  im,        \* first.rs IterMut cursor, with the references it has handed out
  yielded,   \* first.rs: values handed out so far by the IntoIter
  heads,     \* third.rs List.head of the list in every slot
  lstate,    \* third.rs: "none", "live", "dropping" per slot
  drop_head, \* third.rs Drop::drop local `head`
  iters,     \* Iter cursors (both modules)
  steps,     \* loop iterations of the teardown in progress
  drop_n,    \* length of the chain the teardown in progress started with
  depth,     \* nesting depth of node destruction in the teardown's last iteration
  last,      \* the last call: its name and the value it returned
  pending    \* first.rs history: the values pushed and not yet popped, newest
             \* first, each as last written through a mutable reference

vars == <<prog, elem, next, rc, freed, alloc, head, mode, cur_link, im, yielded,
          heads, lstate, drop_head, iters, steps, drop_n, depth, last, pending>>

firstVars == <<head, mode, cur_link, im, yielded, pending>>
thirdVars == <<rc, heads, lstate, drop_head>>
heapVars == <<elem, next, freed, alloc>>
dropVars == <<steps, drop_n, depth>>

\* ---------------------------------------------------------------- chains
RECURSIVE Walk(_, _, _)
Walk(nx, l, fuel) ==
  IF l = None \/ fuel = 0 THEN <<>> ELSE <<l>> \o Walk(nx, nx[l], fuel - 1)

\* the nodes reached from link l, front to back
Path(l) == Walk(next, l, MaxNodes + 1)

\* the elements reached from link l, front to back
Chain(l) == [i \in 1..Len(Path(l)) |-> elem[Path(l)[i]]]

Range(s) == {s[i] : i \in 1..Len(s)}

\* link.as_ref().map(|node| &node.elem): the element a link leads to, if any
ElemOf(l) == IF l = None THEN NoVal ELSE elem[l]

\* a tail that clones the head link itself instead of the front node's next
TailLinkKeepsFront(l) == l

\* link.as_ref().and_then(|node| node.next.clone()): the link after the front node
TailLink(l) == IF l = None THEN None ELSE next[l]

Call(op, r) == [op |-> op, ret |-> r]

NoIter == [live |-> FALSE, of |-> 0, next |-> None, seen |-> <<>>]
NoIterMut == [live |-> FALSE, next |-> None, refs |-> <<>>]

\* Drop glue of an owning link Option<Box<Node<T>>>: the box's node is destroyed,
\* and destroying a node destroys the link in its `next` field from inside it.
\* The result lists the nodes destroyed, outermost first.
BoxDropped(nx, l) == Walk(nx, l, MaxNodes + 1)

\* Drop glue of a shared link Option<Rc<Node<T>>> under strong counts cnt: the count
\* of the node is decremented, and only a count that reaches zero destroys the node,
\* whose `next` link is then dropped from inside it. RcDropped lists the nodes
\* destroyed, outermost first; RcKept is the node whose count was only decremented.
RECURSIVE RcDropped(_, _, _, _)
RcDropped(nx, cnt, l, fuel) ==
  IF l = None \/ fuel = 0 \/ cnt[l] > 1 THEN <<>>
  ELSE <<l>> \o RcDropped(nx, cnt, nx[l], fuel - 1)

RECURSIVE RcKept(_, _, _, _)
RcKept(nx, cnt, l, fuel) ==
  IF l = None \/ fuel = 0 THEN None
  ELSE IF cnt[l] > 1 THEN l
  ELSE RcKept(nx, cnt, nx[l], fuel - 1)

\* the strong counts after one reference to link l was dropped
RcAfterDrop(nx, cnt, l) ==
  LET gone == Range(RcDropped(nx, cnt, l, MaxNodes + 1))
      kept == RcKept(nx, cnt, l, MaxNodes + 1)
  IN  [a \in Addrs |-> IF a \in gone THEN 0
                       ELSE IF a = kept THEN cnt[a] - 1
                       ELSE cnt[a]]

\* a clone that copies the pointer and leaves the strong count alone
RcCloneUncounted(cnt, l) == cnt

\* the strong counts after link l was cloned
RcAfterClone(cnt, l) ==
  [a \in Addrs |-> IF a = l THEN cnt[a] + 1 ELSE cnt[a]]

\* the heap after the nodes of `victims` were reclaimed
Reclaim(f, victims) ==
  [a \in Addrs |-> f[a] + Cardinality({i \in 1..Len(victims) : victims[i] = a})]
Wipe(fn, victims, blank) ==
  [a \in Addrs |-> IF a \in Range(victims) THEN blank ELSE fn[a]]

\* the module whose list the program exercises
First == prog = "first"
Third == prog = "third"

\* ------------------------------------------------- first.rs: borrow rules
\* &mut self methods need the list unborrowed, &self methods need no IterMut
Unborrowed == ~im.live /\ \A c \in CursorIds : ~iters[c].live
Shareable == ~im.live
\* a new cursor is bound to the first cursor variable that holds none
FreeCursor(c) == ~iters[c].live /\ \A d \in 1..(c - 1) : iters[d].live

\* ---------------------------------------------------------------- Init
Init ==
  /\ prog \in {"first", "third"}
  /\ elem = [a \in Addrs |-> NoVal]
  /\ next = [a \in Addrs |-> None]
  /\ rc = [a \in Addrs |-> 0]
  /\ freed = [a \in Addrs |-> 0]
  /\ alloc = 0
  /\ head = None
  /\ mode = "list"
  /\ cur_link = None
  /\ im = NoIterMut
  /\ yielded = <<>>
  /\ heads = [l \in Slots |-> None]
  /\ lstate = [l \in Slots |-> IF l = 1 THEN "live" ELSE "none"]
  /\ drop_head = None
  /\ iters = [c \in CursorIds |-> NoIter]
  /\ steps = 0
  /\ drop_n = 0
  /\ depth = 0
  /\ last = Call("new", NoVal)
  /\ pending = <<>>

\* ------------------------------------------------- first.rs: List<T>
\* push that forgets the old chain: next is left empty instead of self.head.take()
push_forgets_chain(e) ==
  /\ First /\ mode = "list" /\ Unborrowed
  /\ alloc < MaxNodes
  /\ LET new_node == alloc + 1 IN
       /\ elem' = [elem EXCEPT ![new_node] = e]
       /\ next' = [next EXCEPT ![new_node] = None]
       /\ head' = new_node
       /\ alloc' = new_node
  /\ pending' = <<e>> \o pending
  /\ last' = Call("push", NoVal)
  /\ UNCHANGED <<prog, freed, mode, cur_link, im, yielded, iters>>
  /\ UNCHANGED thirdVars /\ UNCHANGED dropVars

push(e) ==
  /\ First /\ mode = "list" /\ Unborrowed
  /\ alloc < MaxNodes
  /\ LET new_node == alloc + 1 IN
       /\ elem' = [elem EXCEPT ![new_node] = e]
       /\ next' = [next EXCEPT ![new_node] = head]
       /\ head' = new_node
       /\ alloc' = new_node
  /\ pending' = <<e>> \o pending
  /\ last' = Call("push", NoVal)
  /\ UNCHANGED <<prog, freed, mode, cur_link, im, yielded, iters>>
  /\ UNCHANGED thirdVars /\ UNCHANGED dropVars

\* a pop that takes the head and forgets to put node.next back: the node is dropped
\* with its next link still in it
pop_body_drops_chain(op) ==
  IF head = None
  THEN /\ last' = Call(op, NoVal)
       /\ UNCHANGED <<head, elem, next, freed, pending>>
  ELSE LET node == head
           victims == BoxDropped(next, node)
       IN  /\ head' = None
           /\ last' = Call(op, elem[node])
           /\ freed' = Reclaim(freed, victims)
           /\ elem' = Wipe(elem, victims, NoVal)
           /\ next' = Wipe(next, victims, None)
           /\ pending' = Tail(pending)

\* a pop that copies the node's next link into head and leaks the node, link and all
pop_body_leaks(op) ==
  IF head = None
  THEN /\ last' = Call(op, NoVal)
       /\ UNCHANGED <<head, elem, next, freed, pending>>
  ELSE /\ head' = next[head]
       /\ last' = Call(op, elem[head])
       /\ pending' = Tail(pending)
       /\ UNCHANGED <<elem, next, freed>>

\* a pop that unwraps the head: on an empty list the call panics and never returns
pop_body_unwrap(op) ==
  /\ head # None
  /\ LET node == head
         nx == [next EXCEPT ![node] = None]
         victims == BoxDropped(nx, node)
     IN  /\ head' = next[node]
         /\ last' = Call(op, elem[node])
         /\ freed' = Reclaim(freed, victims)
         /\ elem' = Wipe(elem, victims, NoVal)
         /\ next' = Wipe(nx, victims, None)
         /\ pending' = Tail(pending)

\* the body of List::pop, shared by pop and IntoIter::next
pop_body(op) ==
  IF head = None
  THEN /\ last' = Call(op, NoVal)
       /\ UNCHANGED <<head, elem, next, freed, pending>>
  ELSE LET node == head
           nx == [next EXCEPT ![node] = None]   \* self.head = node.next
           victims == BoxDropped(nx, node)      \* the emptied box is released
       IN  /\ head' = next[node]
           /\ last' = Call(op, elem[node])
           /\ freed' = Reclaim(freed, victims)
           /\ elem' = Wipe(elem, victims, NoVal)
           /\ next' = Wipe(nx, victims, None)
           /\ pending' = Tail(pending)

pop ==
  /\ First /\ mode = "list" /\ Unborrowed
  /\ pop_body("pop")
  /\ UNCHANGED <<prog, alloc, mode, cur_link, im, yielded, iters>>
  /\ UNCHANGED thirdVars /\ UNCHANGED dropVars

peek ==
  /\ First /\ mode = "list" /\ Shareable
  /\ last' = Call("peek", ElemOf(head))
  /\ UNCHANGED <<prog, iters>>
  /\ UNCHANGED heapVars /\ UNCHANGED firstVars
  /\ UNCHANGED thirdVars /\ UNCHANGED dropVars

\* peek_mut, the caller only reading through the reference
peek_mut ==
  /\ First /\ mode = "list" /\ Unborrowed
  /\ last' = Call("peek_mut", ElemOf(head))
  /\ UNCHANGED <<prog, iters>>
  /\ UNCHANGED heapVars /\ UNCHANGED firstVars
  /\ UNCHANGED thirdVars /\ UNCHANGED dropVars

\* peek_mut that hands out a copy of the element: the write never reaches the node
peek_mut_set_copy(v) ==
  /\ First /\ mode = "list" /\ Unborrowed
  /\ IF head = None
     THEN /\ last' = Call("peek_mut_set", NoVal)
          /\ UNCHANGED pending
     ELSE /\ last' = Call("peek_mut_set", v)
          /\ pending' = [pending EXCEPT ![1] = v]
  /\ UNCHANGED <<prog, elem, next, freed, alloc, head, mode, cur_link, im, yielded, iters>>
  /\ UNCHANGED thirdVars /\ UNCHANGED dropVars

\* list.peek_mut().map(|value| *value = v); the call returns what is stored
peek_mut_set(v) ==
  /\ First /\ mode = "list" /\ Unborrowed
  /\ IF head = None
     THEN /\ last' = Call("peek_mut_set", NoVal)
          /\ UNCHANGED <<elem, pending>>
     ELSE /\ last' = Call("peek_mut_set", v)
          /\ elem' = [elem EXCEPT ![head] = v]
          /\ pending' = [pending EXCEPT ![1] = v]
  /\ UNCHANGED <<prog, next, freed, alloc, head, mode, cur_link, im, yielded, iters>>
  /\ UNCHANGED thirdVars /\ UNCHANGED dropVars

\* ------------------------------------------------- first.rs: Iter<'a, T>
iter(c) ==
  /\ First /\ mode = "list" /\ Shareable
  /\ FreeCursor(c)
  /\ iters' = [iters EXCEPT ![c] = [live |-> TRUE, of |-> 0, next |-> head, seen |-> <<>>]]
  /\ last' = Call("iter", NoVal)
  /\ UNCHANGED prog
  /\ UNCHANGED heapVars /\ UNCHANGED firstVars
  /\ UNCHANGED thirdVars /\ UNCHANGED dropVars

\* next that moves the cursor two nodes on
iter_next_skips(c) ==
  /\ First /\ iters[c].live
  /\ LET node == iters[c].next IN
       IF node = None
       THEN /\ last' = Call("iter_next", NoVal)
            /\ UNCHANGED iters
       ELSE /\ last' = Call("iter_next", elem[node])
            /\ iters' = [iters EXCEPT ![c].next = TailLink(next[node]),
                                      ![c].seen = Append(@, elem[node])]
  /\ UNCHANGED prog
  /\ UNCHANGED heapVars /\ UNCHANGED firstVars
  /\ UNCHANGED thirdVars /\ UNCHANGED dropVars

iter_next(c) ==
  /\ First /\ iters[c].live
  /\ LET node == iters[c].next IN
       IF node = None
       THEN /\ last' = Call("iter_next", NoVal)
            /\ UNCHANGED iters
       ELSE /\ last' = Call("iter_next", elem[node])
            /\ iters' = [iters EXCEPT ![c].next = next[node],
                                      ![c].seen = Append(@, elem[node])]
  /\ UNCHANGED prog
  /\ UNCHANGED heapVars /\ UNCHANGED firstVars
  /\ UNCHANGED thirdVars /\ UNCHANGED dropVars

\* the cursor is used no more: its borrow of the list ends
iter_end(c) ==
  /\ iters[c].live
  /\ iters' = [iters EXCEPT ![c] = NoIter]
  /\ last' = Call("iter_end", NoVal)
  /\ UNCHANGED prog
  /\ UNCHANGED heapVars /\ UNCHANGED firstVars
  /\ UNCHANGED thirdVars /\ UNCHANGED dropVars

\* ------------------------------------------------- first.rs: IterMut<'a, T>
iter_mut ==
  /\ First /\ mode = "list" /\ Unborrowed
  /\ im' = [live |-> TRUE, next |-> head, refs |-> <<>>]
  /\ last' = Call("iter_mut", NoVal)
  /\ UNCHANGED <<prog, head, mode, cur_link, yielded, iters, pending>>
  /\ UNCHANGED heapVars /\ UNCHANGED thirdVars /\ UNCHANGED dropVars

iter_mut_next ==
  /\ First /\ im.live
  /\ LET node == im.next IN
       IF node = None
       THEN /\ last' = Call("iter_mut_next", NoVal)
            /\ UNCHANGED im
       ELSE /\ last' = Call("iter_mut_next", elem[node])
            /\ im' = [im EXCEPT !.next = next[node], !.refs = Append(@, node)]
  /\ UNCHANGED <<prog, head, mode, cur_link, yielded, iters, pending>>
  /\ UNCHANGED heapVars /\ UNCHANGED thirdVars /\ UNCHANGED dropVars

\* the caller writes v through the k-th reference the cursor handed out
iter_mut_write(k, v) ==
  /\ First /\ im.live /\ k \in 1..Len(im.refs)
  /\ elem' = [elem EXCEPT ![im.refs[k]] = v]
  /\ pending' = [pending EXCEPT ![k] = v]
  /\ last' = Call("iter_mut_write", NoVal)
  /\ UNCHANGED <<prog, next, freed, alloc, head, mode, cur_link, im, yielded, iters>>
  /\ UNCHANGED thirdVars /\ UNCHANGED dropVars

iter_mut_end ==
  /\ First /\ im.live
  /\ im' = NoIterMut
  /\ last' = Call("iter_mut_end", NoVal)
  /\ UNCHANGED <<prog, head, mode, cur_link, yielded, iters, pending>>
  /\ UNCHANGED heapVars /\ UNCHANGED thirdVars /\ UNCHANGED dropVars

\* ------------------------------------------------- first.rs: IntoIter<T>
into_iter ==
  /\ First /\ mode = "list" /\ Unborrowed
  /\ mode' = "into_iter"
  /\ yielded' = <<>>
  /\ last' = Call("into_iter", NoVal)
  /\ UNCHANGED <<prog, head, cur_link, im, iters, pending>>
  /\ UNCHANGED heapVars /\ UNCHANGED thirdVars /\ UNCHANGED dropVars

into_iter_next ==
  /\ First /\ mode = "into_iter"
  /\ pop_body("into_iter_next")
  /\ yielded' = IF head = None THEN yielded ELSE Append(yielded, elem[head])
  /\ UNCHANGED <<prog, alloc, mode, cur_link, im, iters>>
  /\ UNCHANGED thirdVars /\ UNCHANGED dropVars

\* ------------------------------------------------- first.rs: Drop for List<T>
drop_begin ==
  /\ First /\ mode \in {"list", "into_iter"} /\ Unborrowed
  /\ cur_link' = head
  /\ head' = None
  /\ mode' = "dropping"
  /\ steps' = 0
  /\ drop_n' = Len(Path(head))
  /\ last' = Call("drop", NoVal)
  /\ UNCHANGED <<prog, im, yielded, iters, depth, pending>>
  /\ UNCHANGED heapVars /\ UNCHANGED thirdVars

\* an iteration that reads boxed_node.next without taking it out of the node
drop_step_no_take ==
  /\ First /\ mode = "dropping" /\ cur_link # None
  /\ LET boxed_node == cur_link
         victims == BoxDropped(next, boxed_node)
     IN  /\ cur_link' = next[boxed_node]
         /\ freed' = Reclaim(freed, victims)
         /\ elem' = Wipe(elem, victims, NoVal)
         /\ next' = Wipe(next, victims, None)
         /\ depth' = Len(victims)
  /\ steps' = steps + 1
  /\ UNCHANGED <<prog, alloc, head, mode, im, yielded, iters, drop_n, last, pending>>
  /\ UNCHANGED thirdVars

\* one iteration of `while let Some(mut boxed_node) = cur_link`
drop_step ==
  /\ First /\ mode = "dropping" /\ cur_link # None
  /\ LET boxed_node == cur_link
         nx == [next EXCEPT ![boxed_node] = None]   \* boxed_node.next.take()
         victims == BoxDropped(nx, boxed_node)       \* boxed_node goes out of scope
     IN  /\ cur_link' = next[boxed_node]
         /\ freed' = Reclaim(freed, victims)
         /\ elem' = Wipe(elem, victims, NoVal)
         /\ next' = Wipe(nx, victims, None)
         /\ depth' = Len(victims)
  /\ steps' = steps + 1
  /\ UNCHANGED <<prog, alloc, head, mode, im, yielded, iters, drop_n, last, pending>>
  /\ UNCHANGED thirdVars

\* the loop ends; the compiler then drops the field `head`
drop_end ==
  /\ First /\ mode = "dropping" /\ cur_link = None
  /\ LET victims == BoxDropped(next, head) IN
       /\ freed' = Reclaim(freed, victims)
       /\ elem' = Wipe(elem, victims, NoVal)
       /\ next' = Wipe(next, victims, None)
  /\ mode' = "dropped"
  /\ steps' = 0 /\ drop_n' = 0 /\ depth' = 0
  /\ UNCHANGED <<prog, alloc, head, cur_link, im, yielded, iters, last, pending>>
  /\ UNCHANGED thirdVars

\* ------------------------------------------------- third.rs: List<T>
\* nothing else runs while a teardown is in progress (single-threaded)
Idle == \A l \in Slots : lstate[l] # "dropping"
\* a new list is bound to the first variable that holds none
FreeSlot(l) == lstate[l] = "none" /\ \A m \in 1..(l - 1) : lstate[m] # "none"
Borrowed(l) == \E c \in CursorIds : iters[c].live /\ iters[c].of = l

rc_new(dst) ==
  /\ Third /\ Idle /\ FreeSlot(dst)
  /\ heads' = [heads EXCEPT ![dst] = None]
  /\ lstate' = [lstate EXCEPT ![dst] = "live"]
  /\ last' = Call("new", NoVal)
  /\ UNCHANGED <<prog, rc, drop_head, iters>>
  /\ UNCHANGED heapVars /\ UNCHANGED firstVars /\ UNCHANGED dropVars

rc_head(l) ==
  /\ Third /\ Idle /\ lstate[l] = "live"
  /\ last' = Call("head", ElemOf(heads[l]))
  /\ UNCHANGED <<prog, iters>>
  /\ UNCHANGED heapVars /\ UNCHANGED firstVars
  /\ UNCHANGED thirdVars /\ UNCHANGED dropVars

\* prepend that pushes onto the list it was called on and hands that list out again
rc_prepend_in_place(src, dst, e) ==
  /\ Third /\ Idle /\ lstate[src] = "live" /\ FreeSlot(dst)
  /\ alloc < MaxNodes
  /\ LET new_node == alloc + 1 IN
       /\ elem' = [elem EXCEPT ![new_node] = e]
       /\ next' = [next EXCEPT ![new_node] = heads[src]]
       /\ rc' = [rc EXCEPT ![new_node] = 2]
       /\ heads' = [heads EXCEPT ![dst] = new_node, ![src] = new_node]
       /\ alloc' = new_node
  /\ lstate' = [lstate EXCEPT ![dst] = "live"]
  /\ last' = Call("prepend", NoVal)
  /\ UNCHANGED <<prog, freed, drop_head, iters>>
  /\ UNCHANGED firstVars /\ UNCHANGED dropVars

rc_prepend(src, dst, e) ==
  /\ Third /\ Idle /\ lstate[src] = "live" /\ FreeSlot(dst)
  /\ alloc < MaxNodes
  /\ LET new_node == alloc + 1 IN
       /\ elem' = [elem EXCEPT ![new_node] = e]
       /\ next' = [next EXCEPT ![new_node] = heads[src]]       \* self.head.clone()
       /\ rc' = [RcAfterClone(rc, heads[src]) EXCEPT ![new_node] = 1]
       /\ heads' = [heads EXCEPT ![dst] = new_node]
       /\ alloc' = new_node
  /\ lstate' = [lstate EXCEPT ![dst] = "live"]
  /\ last' = Call("prepend", NoVal)
  /\ UNCHANGED <<prog, freed, drop_head, iters>>
  /\ UNCHANGED firstVars /\ UNCHANGED dropVars

\* a tail that copies the pointer of the second node without cloning the Rc
rc_tail_borrowing(src, dst) ==
  /\ Third /\ Idle /\ lstate[src] = "live" /\ FreeSlot(dst)
  /\ heads' = [heads EXCEPT ![dst] = TailLink(heads[src])]
  /\ lstate' = [lstate EXCEPT ![dst] = "live"]
  /\ last' = Call("tail", NoVal)
  /\ UNCHANGED <<prog, rc, drop_head, iters>>
  /\ UNCHANGED heapVars /\ UNCHANGED firstVars /\ UNCHANGED dropVars

\* a tail that moves the next link out of the front node instead of cloning it
rc_tail_detaching(src, dst) ==
  /\ Third /\ Idle /\ lstate[src] = "live" /\ FreeSlot(dst)
  /\ heads' = [heads EXCEPT ![dst] = TailLink(heads[src])]
  /\ next' = IF heads[src] = None THEN next ELSE [next EXCEPT ![heads[src]] = None]
  /\ lstate' = [lstate EXCEPT ![dst] = "live"]
  /\ last' = Call("tail", NoVal)
  /\ UNCHANGED <<prog, rc, drop_head, iters, elem, freed, alloc>>
  /\ UNCHANGED firstVars /\ UNCHANGED dropVars

rc_tail(src, dst) ==
  /\ Third /\ Idle /\ lstate[src] = "live" /\ FreeSlot(dst)
  /\ heads' = [heads EXCEPT ![dst] = TailLink(heads[src])]
  /\ rc' = RcAfterClone(rc, TailLink(heads[src]))
  /\ lstate' = [lstate EXCEPT ![dst] = "live"]
  /\ last' = Call("tail", NoVal)
  /\ UNCHANGED <<prog, drop_head, iters>>
  /\ UNCHANGED heapVars /\ UNCHANGED firstVars /\ UNCHANGED dropVars

\* ------------------------------------------------- third.rs: Iter<'a, T>
\* a cursor that holds a clone of the head link instead of borrowing the node
rc_iter_owning(l, c) ==
  /\ Third /\ Idle /\ lstate[l] = "live"
  /\ FreeCursor(c)
  /\ iters' = [iters EXCEPT ![c] = [live |-> TRUE, of |-> l, next |-> heads[l], seen |-> <<>>]]
  /\ rc' = RcAfterClone(rc, heads[l])
  /\ last' = Call("iter", NoVal)
  /\ UNCHANGED <<prog, heads, lstate, drop_head>>
  /\ UNCHANGED heapVars /\ UNCHANGED firstVars /\ UNCHANGED dropVars

rc_iter(l, c) ==
  /\ Third /\ Idle /\ lstate[l] = "live"
  /\ FreeCursor(c)
  /\ iters' = [iters EXCEPT ![c] = [live |-> TRUE, of |-> l, next |-> heads[l], seen |-> <<>>]]
  /\ last' = Call("iter", NoVal)
  /\ UNCHANGED prog
  /\ UNCHANGED heapVars /\ UNCHANGED firstVars
  /\ UNCHANGED thirdVars /\ UNCHANGED dropVars

\* a cursor that goes back to the front of its list once it has signalled the end
rc_iter_next_rewinds(c) ==
  /\ Third /\ Idle /\ iters[c].live
  /\ LET node == iters[c].next IN
       IF node = None
       THEN /\ last' = Call("iter_next", NoVal)
            /\ iters' = [iters EXCEPT ![c].next = heads[iters[c].of],
                                      ![c].seen = <<>>]
       ELSE /\ last' = Call("iter_next", elem[node])
            /\ iters' = [iters EXCEPT ![c].next = next[node],
                                      ![c].seen = Append(@, elem[node])]
  /\ UNCHANGED prog
  /\ UNCHANGED heapVars /\ UNCHANGED firstVars
  /\ UNCHANGED thirdVars /\ UNCHANGED dropVars

rc_iter_next(c) ==
  /\ Third /\ Idle /\ iters[c].live
  /\ LET node == iters[c].next IN
       IF node = None
       THEN /\ last' = Call("iter_next", NoVal)
            /\ UNCHANGED iters
       ELSE /\ last' = Call("iter_next", elem[node])
            /\ iters' = [iters EXCEPT ![c].next = next[node],
                                      ![c].seen = Append(@, elem[node])]
  /\ UNCHANGED prog
  /\ UNCHANGED heapVars /\ UNCHANGED firstVars
  /\ UNCHANGED thirdVars /\ UNCHANGED dropVars

\* ------------------------------------------------- third.rs: Drop for List<T>
rc_drop_begin(l) ==
  /\ Third /\ Idle /\ lstate[l] = "live" /\ ~Borrowed(l)
  /\ drop_head' = heads[l]                                     \* self.head.take()
  /\ heads' = [heads EXCEPT ![l] = None]
  /\ lstate' = [lstate EXCEPT ![l] = "dropping"]
  /\ steps' = 0
  /\ drop_n' = Len(Path(heads[l]))
  /\ last' = Call("drop", NoVal)
  /\ UNCHANGED <<prog, rc, iters, depth>>
  /\ UNCHANGED heapVars /\ UNCHANGED firstVars

\* an iteration that, at a node still shared, leaves the loop without giving up
\* its own reference (the Err value is forgotten instead of dropped)
rc_drop_step_keeps_ref ==
  /\ Third /\ ~Idle /\ drop_head # None
  /\ LET node == drop_head IN
       IF rc[node] = 1
       THEN LET nx == [next EXCEPT ![node] = None]
                cnt == [rc EXCEPT ![node] = 0]
                victims == <<node>> \o RcDropped(nx, cnt, nx[node], MaxNodes + 1)
            IN  /\ drop_head' = next[node]
                /\ rc' = RcAfterDrop(nx, cnt, nx[node])
                /\ freed' = Reclaim(freed, victims)
                /\ elem' = Wipe(elem, victims, NoVal)
                /\ next' = Wipe(nx, victims, None)
                /\ depth' = Len(victims)
       ELSE /\ drop_head' = None
            /\ depth' = 0
            /\ UNCHANGED <<rc, freed, elem, next>>
  /\ steps' = steps + 1
  /\ UNCHANGED <<prog, alloc, heads, lstate, iters, drop_n, last>>
  /\ UNCHANGED firstVars

\* a teardown with no loop: the link is dropped and the drop glue walks the chain,
\* each node destroying its successor from inside its own destruction
rc_drop_step_recursive ==
  /\ Third /\ ~Idle /\ drop_head # None
  /\ LET victims == RcDropped(next, rc, drop_head, MaxNodes + 1) IN
       /\ drop_head' = None
       /\ rc' = RcAfterDrop(next, rc, drop_head)
       /\ freed' = Reclaim(freed, victims)
       /\ elem' = Wipe(elem, victims, NoVal)
       /\ next' = Wipe(next, victims, None)
       /\ depth' = Len(victims)
  /\ steps' = steps + 1
  /\ UNCHANGED <<prog, alloc, heads, lstate, iters, drop_n, last>>
  /\ UNCHANGED firstVars

\* an iteration that takes the node out whatever its strong count is
rc_drop_step_unchecked ==
  /\ Third /\ ~Idle /\ drop_head # None
  /\ LET node == drop_head
         nx == [next EXCEPT ![node] = None]
         cnt == [rc EXCEPT ![node] = 0]
         victims == <<node>> \o RcDropped(nx, cnt, nx[node], MaxNodes + 1)
     IN  /\ drop_head' = next[node]
         /\ rc' = RcAfterDrop(nx, cnt, nx[node])
         /\ freed' = Reclaim(freed, victims)
         /\ elem' = Wipe(elem, victims, NoVal)
         /\ next' = Wipe(nx, victims, None)
         /\ depth' = Len(victims)
  /\ steps' = steps + 1
  /\ UNCHANGED <<prog, alloc, heads, lstate, iters, drop_n, last>>
  /\ UNCHANGED firstVars

\* one iteration of `while let Some(node) = head`
rc_drop_step ==
  /\ Third /\ ~Idle /\ drop_head # None
  /\ LET node == drop_head IN
       IF rc[node] = 1
       THEN \* Rc::try_unwrap gives the node: the Rc is gone, its node is a local
            LET nx == [next EXCEPT ![node] = None]             \* node.next.take()
                cnt == [rc EXCEPT ![node] = 0]
                victims == <<node>> \o RcDropped(nx, cnt, nx[node], MaxNodes + 1)
            IN  /\ drop_head' = next[node]
                /\ rc' = RcAfterDrop(nx, cnt, nx[node])
                /\ freed' = Reclaim(freed, victims)
                /\ elem' = Wipe(elem, victims, NoVal)
                /\ next' = Wipe(nx, victims, None)
                /\ depth' = Len(victims)
       ELSE \* Err(rc): the reference is dropped and the loop breaks
            LET victims == RcDropped(next, rc, node, MaxNodes + 1)
            IN  /\ drop_head' = None
                /\ rc' = RcAfterDrop(next, rc, node)
                /\ freed' = Reclaim(freed, victims)
                /\ elem' = Wipe(elem, victims, NoVal)
                /\ next' = Wipe(next, victims, None)
                /\ depth' = Len(victims)
  /\ steps' = steps + 1
  /\ UNCHANGED <<prog, alloc, heads, lstate, iters, drop_n, last>>
  /\ UNCHANGED firstVars

\* the loop ends; the compiler then drops the field `head` and the list is gone
rc_drop_end ==
  /\ Third /\ ~Idle /\ drop_head = None
  /\ \E l \in Slots :
       /\ lstate[l] = "dropping"
       /\ LET victims == RcDropped(next, rc, heads[l], MaxNodes + 1) IN
            /\ rc' = RcAfterDrop(next, rc, heads[l])
            /\ freed' = Reclaim(freed, victims)
            /\ elem' = Wipe(elem, victims, NoVal)
            /\ next' = Wipe(next, victims, None)
       /\ heads' = [heads EXCEPT ![l] = None]
       /\ lstate' = [lstate EXCEPT ![l] = "none"]
  /\ steps' = 0 /\ drop_n' = 0 /\ depth' = 0
  /\ UNCHANGED <<prog, alloc, drop_head, iters, last>>
  /\ UNCHANGED firstVars

NextThird ==
  \/ \E dst \in Slots : rc_new(dst)
  \/ \E l \in Slots : rc_head(l)
  \/ \E src, dst \in Slots : rc_prepend(src, dst, alloc + 1)
  \/ \E src, dst \in Slots : rc_tail(src, dst)
  \/ \E l \in Slots, c \in CursorIds : rc_iter(l, c)
  \/ \E c \in CursorIds : rc_iter_next(c)
  \/ \E l \in Slots : rc_drop_begin(l)
  \/ rc_drop_step
  \/ rc_drop_end

NextFirst ==
  \/ push(alloc + 1)
  \/ pop
  \/ peek
  \/ peek_mut
  \/ peek_mut_set(Fresh)
  \/ \E c \in CursorIds : iter(c)
  \/ \E c \in CursorIds : iter_next(c)
  \/ iter_mut
  \/ iter_mut_next
  \/ \E k \in 1..MaxNodes : iter_mut_write(k, Fresh)
  \/ iter_mut_end
  \/ into_iter
  \/ into_iter_next
  \/ drop_begin
  \/ drop_step
  \/ drop_end

Next ==
  \/ NextFirst
  \/ NextThird
  \/ \E c \in CursorIds : iter_end(c)

Spec == Init /\ [][Next]_vars

\* ================================================================ claims
Live == {l \in Slots : lstate[l] = "live"}
Allocated == 1..alloc
FrontOf(s) == IF s = <<>> THEN NoVal ELSE Head(s)

\* C1: on the owned list every pop returns the most recently pushed element that
\* has not been popped yet, and it returns no value exactly when nothing pushed
\* is left, whatever pushes and pops came before.
C1_PopIsLifo ==
  [][pop => /\ last'.ret = FrontOf(pending)
            /\ (last'.ret = NoVal) <=> (pending = <<>>)
            /\ (pending = <<>>) <=> (head = None)]_vars

\* C1 witness: push 1, push 2, pop, push 3, pop: the second pop has returned 3
\* and only the first element is left.
C1_Witness ==
  /\ First /\ last.op = "pop" /\ last.ret = 3
  /\ pending = <<1>> /\ freed[2] = 1

\* C2: prepend(e) on a list with elements s gives a new list with elements e
\* followed by s, and the list it was called on keeps its head, its nodes and
\* its elements, so head() and iter() on it give what they gave before.
C2_PrependFrame ==
  [][\A src, dst \in Slots, e \in Elems :
       (last'.op = "prepend" /\ rc_prepend(src, dst, e)) =>
         /\ Chain(heads[dst])' = <<e>> \o Chain(heads[src])
         /\ lstate'[dst] = "live" /\ lstate'[src] = "live"
         /\ heads'[src] = heads[src]
         /\ ElemOf(heads[src])' = ElemOf(heads[src])
         /\ Path(heads[src])' = Path(heads[src])
         /\ Chain(heads[src])' = Chain(heads[src])]_vars

\* C2 witness: a list of two elements was built by prepending to a list of one,
\* which is still there.
C2_Witness ==
  /\ Third /\ last.op = "prepend"
  /\ \E src, dst \in Live :
       /\ Len(Chain(heads[src])) = 1
       /\ Len(Chain(heads[dst])) = 2
       /\ next[heads[dst]] = heads[src]

\* no node reached from a live list has been reclaimed, and each is still counted
Intact(l) ==
  \A a \in Range(Path(heads[l])) : freed[a] = 0 /\ rc[a] >= 1 /\ elem[a] # NoVal

\* C3: prepend allocates one node whose next is the very head node of the list
\* it was called on (nothing is copied); no step, a teardown step of another list
\* included, changes the nodes or elements of a list that stays alive; and no
\* node a live list reaches is ever reclaimed.
C3_SharedAndSafe ==
  /\ [](\A l \in Slots : lstate[l] = "live" => Intact(l))
  /\ [][/\ \A src, dst \in Slots, e \in Elems :
             (last'.op = "prepend" /\ rc_prepend(src, dst, e)) =>
               /\ alloc' = alloc + 1
               /\ next'[heads'[dst]] = heads[src]
               /\ Path(heads[dst])' = <<alloc + 1>> \o Path(heads[src])
        /\ \A l \in Slots :
             (lstate[l] = "live" /\ lstate'[l] = "live") =>
               \/ heads'[l] = heads[l] /\ next' = next /\ elem' = elem
               \/ /\ Path(heads[l])' = Path(heads[l])
                  /\ Chain(heads[l])' = Chain(heads[l])]_vars

\* C3 witness: A and B were both built on L = [1]; L has been destroyed, and A
\* and B still share L's node.
C3_Witness ==
  /\ Third /\ Idle
  /\ \E a, b \in Live :
       /\ a # b /\ heads[a] # heads[b]
       /\ Len(Path(heads[a])) = 2 /\ Len(Path(heads[b])) = 2
       /\ next[heads[a]] = next[heads[b]]
       /\ rc[next[heads[a]]] = 2
       /\ \A l \in Live : heads[l] # next[heads[a]]

\* C4: an iteration of the persistent teardown reclaims the node at the front of
\* the walk, and nothing else, only when the walk holds the last reference to it;
\* at a node that is still referenced elsewhere it gives up one reference, stops,
\* and leaves that node and all nodes after it unreclaimed.
C4_StopsAtSharedNode ==
  [][rc_drop_step =>
       LET node == drop_head IN
         /\ \A a \in Addrs : freed'[a] # freed[a] => (a = node /\ rc[a] = 1)
         /\ rc[node] = 1 =>
              /\ freed'[node] = freed[node] + 1
              /\ drop_head' = next[node]
              /\ rc' = [rc EXCEPT ![node] = 0]
         /\ rc[node] > 1 =>
              /\ rc' = [rc EXCEPT ![node] = rc[node] - 1]
              /\ drop_head' = None
              /\ freed' = freed /\ next' = next /\ elem' = elem
              /\ \A a \in Range(Path(node)) : freed'[a] = 0 /\ rc'[a] >= 1]_vars

\* C4 witness: a teardown reclaimed its first node and stopped at the second,
\* which another list still references.
C4_Witness ==
  /\ Third /\ ~Idle /\ drop_head = None
  /\ drop_n = 2 /\ steps = 2
  /\ Cardinality({a \in Addrs : freed[a] = 1}) = 1
  /\ \E l \in Live : heads[l] # None /\ rc[heads[l]] = 1

\* C5: on the owned list no node is ever reclaimed twice, and once the list has
\* been destroyed, as a List or inside an IntoIter, every node push allocated
\* has been reclaimed exactly once.
C5_ReclaimedOnce ==
  First =>
    /\ \A a \in Addrs : freed[a] <= 1
    /\ \A a \in Addrs \ Allocated : freed[a] = 0
    /\ mode = "dropped" => \A a \in Allocated : freed[a] = 1

\* C5 witness: three nodes were pushed, an IntoIter handed out one element and
\* was then destroyed with two nodes left in it.
C5_Witness ==
  /\ First /\ mode = "dropped"
  /\ alloc = 3 /\ yielded = <<3>>
  /\ \A a \in Allocated : freed[a] = 1
RECURSIVE TailTimes(_, _)
TailTimes(l, k) == IF k = 0 THEN l ELSE TailTimes(TailLink(l), k - 1)
Nth(s, i) == IF i \in 1..Len(s) THEN s[i] ELSE NoVal
DropFront(s) == IF s = <<>> THEN <<>> ELSE Tail(s)

\* C6: tail() on a list with elements e followed by s gives a new list with
\* elements s that starts at the original's second node, tail() on an empty list
\* gives an empty list, and the original keeps its nodes and elements; taking the
\* tail k times of any live list leads to its (k+1)-th element, or to no value
\* once k reaches its length.
C6_TailDropsFront ==
  /\ [](\A l \in Slots : lstate[l] = "live" =>
          \A k \in 0..(MaxNodes + 1) :
            ElemOf(TailTimes(heads[l], k)) = Nth(Chain(heads[l]), k + 1))
  /\ [][\A src, dst \in Slots :
          (last'.op = "tail" /\ rc_tail(src, dst)) =>
            /\ lstate'[dst] = "live" /\ lstate'[src] = "live"
            /\ Chain(heads[dst])' = DropFront(Chain(heads[src]))
            /\ Path(heads[dst])' = DropFront(Path(heads[src]))
            /\ heads'[src] = heads[src]
            /\ Path(heads[src])' = Path(heads[src])
            /\ Chain(heads[src])' = Chain(heads[src])]_vars

\* C6 witness: the tail of a list of two elements was taken: the new list
\* starts at the second node, which both lists now reference.
C6_Witness ==
  /\ Third /\ last.op = "tail"
  /\ \E src, dst \in Live :
       /\ src # dst
       /\ Len(Chain(heads[src])) = 2
       /\ Chain(heads[dst]) = Tail(Chain(heads[src]))
       /\ heads[dst] = next[heads[src]]
       /\ rc[heads[dst]] = 2

\* C7: peek and peek_mut return the front element (no value when empty) and
\* leave the nodes and elements of the list as they were; a write through
\* peek_mut replaces the front element only; and the pop that follows such a
\* write returns the value written and removes that element only.
C7_PeekFrame ==
  [][/\ (peek \/ peek_mut) =>
          /\ last'.ret = FrontOf(Chain(head))
          /\ Path(head)' = Path(head)
          /\ Chain(head)' = Chain(head)
     /\ \A v \in Elems :
          (last'.op = "peek_mut_set" /\ peek_mut_set(v)) =>
            /\ Path(head)' = Path(head)
            /\ Chain(head)' = IF head = None THEN <<>> ELSE <<v>> \o Tail(Chain(head))
     /\ (last.op = "peek_mut_set" /\ last.ret # NoVal /\ pop) =>
          /\ last'.ret = last.ret
          /\ Chain(head)' = Tail(Chain(head))]_vars

\* C7 witness: 1 and 2 were pushed, the front was overwritten through peek_mut,
\* and pop has returned the value written, leaving 1.
C7_Witness ==
  /\ First /\ last.op = "pop" /\ last.ret = Fresh
  /\ pending = <<1>> /\ Chain(head) = <<1>>

\* C8: Iter, IterMut and IntoIter all hand out the elements newest first: the
\* k-th call of next on any of them returns the k-th newest element still in the
\* list when the cursor was made (the order of successive pops), the references
\* an IterMut has handed out are the front nodes in order, and what a cursor has
\* handed out followed by what it has left is the whole list.
C8_SameOrder ==
  /\ [](First =>
          /\ mode \in {"list", "into_iter"} => Chain(head) = pending
          /\ \A c \in CursorIds :
               iters[c].live => iters[c].seen \o Chain(iters[c].next) = pending
          /\ im.live => im.refs \o Path(im.next) = Path(head))
  /\ [][/\ \A c \in CursorIds :
             (last'.op = "iter_next" /\ iter_next(c)) =>
               last'.ret = Nth(pending, Len(iters[c].seen) + 1)
        /\ iter_mut_next => last'.ret = Nth(pending, Len(im.refs) + 1)
        /\ into_iter_next =>
             /\ last'.ret = Nth(pending, 1)
             /\ yielded' \o pending' = yielded \o pending]_vars

\* C8 witness: after push 1, 2, 3 an Iter has handed out 3, 2, 1 and is at the end.
C8_Witness ==
  /\ First /\ iters[1].live
  /\ iters[1].seen = <<3, 2, 1>> /\ iters[1].next = None

\* C9: a teardown of either list never runs more iterations than the chain it
\* started with has nodes (iterations done plus nodes left never exceed that
\* length), it can always take its next step, and an iteration never destroys
\* more than one node, so no node is destroyed from inside another.
C9_TeardownBounded ==
  /\ (First /\ mode = "dropping") =>
       /\ steps + Len(Path(cur_link)) = drop_n
       /\ depth <= 1
       /\ ENABLED (drop_step \/ drop_end)
  /\ (Third /\ ~Idle) =>
       /\ steps + Len(Path(drop_head)) <= drop_n
       /\ depth <= 1
       /\ ENABLED (rc_drop_step \/ rc_drop_end)

\* C9 witness: the teardown of an owned list of three nodes has run its three
\* iterations, one node each, and is about to return.
C9_Witness ==
  /\ First /\ mode = "dropping" /\ cur_link = None
  /\ drop_n = 3 /\ steps = 3 /\ depth = 1

\* the list a cursor iterates
ListOf(c) == IF First THEN head ELSE heads[iters[c].of]
ListFrame ==
  UNCHANGED <<elem, next, rc, freed, alloc, head, mode, heads, lstate, pending>>

\* C10: making an Iter and advancing it change nothing of any list (nodes,
\* elements, strong counts); a new cursor starts at the front of its list; no
\* cursor operation touches another cursor; and what a cursor has handed out
\* followed by what it has left is always its whole list.
C10_IterFrame ==
  /\ [](\A c \in CursorIds :
          iters[c].live => iters[c].seen \o Chain(iters[c].next) = Chain(ListOf(c)))
  /\ [][\A c \in CursorIds :
          /\ (last'.op = "iter" /\ (iter(c) \/ \E l \in Slots : rc_iter(l, c))) =>
               /\ ListFrame
               /\ iters'[c].live /\ iters'[c].seen = <<>>
               /\ iters'[c].next = ListOf(c)'
               /\ \A d \in CursorIds \ {c} : iters'[d] = iters[d]
          /\ (last'.op = "iter_next" /\ (iter_next(c) \/ rc_iter_next(c))) =>
               /\ ListFrame
               /\ \A d \in CursorIds \ {c} : iters'[d] = iters[d]]_vars

\* C10 witness: two cursors over the same persistent list of two elements, one
\* at the end and one still at the front, the list's second node being shared.
C10_Witness ==
  /\ Third /\ iters[1].live /\ iters[2].live
  /\ iters[1].of = iters[2].of
  /\ Len(iters[1].seen) = 2 /\ iters[1].next = None
  /\ iters[2].seen = <<>> /\ iters[2].next = heads[iters[2].of]
  /\ rc[next[heads[iters[1].of]]] = 2


\* the heap and the owned list are as they were
HeapFrame == UNCHANGED <<elem, next, rc, freed, alloc>>

\* C11: on an empty list every operation completes and reports absence instead
\* of failing: pop, peek and peek_mut on an empty owned list and head on an empty
\* persistent list can always be called and return no value, tail on an empty
\* persistent list gives an empty list, and the call leaves the list empty and
\* allocates and reclaims nothing.
C11_EmptyIsNoError ==
  /\ [](/\ (First /\ mode = "list" /\ Unborrowed /\ head = None) =>
             /\ ENABLED pop
             /\ ENABLED peek
             /\ ENABLED peek_mut
             /\ ENABLED peek_mut_set(Fresh)
        /\ \A l \in Slots :
             (Third /\ Idle /\ lstate[l] = "live" /\ heads[l] = None) =>
               /\ ENABLED rc_head(l)
               /\ \A dst \in Slots : FreeSlot(dst) => ENABLED rc_tail(l, dst))
  /\ [][/\ (head = None /\ (pop \/ peek \/ peek_mut \/ peek_mut_set(Fresh))) =>
             /\ last'.ret = NoVal
             /\ HeapFrame
             /\ UNCHANGED <<head, mode, pending>>
        /\ \A l \in Slots :
             (heads[l] = None /\ last'.op = "head" /\ rc_head(l)) =>
               /\ last'.ret = NoVal
               /\ HeapFrame
               /\ UNCHANGED <<heads, lstate>>
        /\ \A src, dst \in Slots :
             (heads[src] = None /\ last'.op = "tail" /\ rc_tail(src, dst)) =>
               /\ heads'[dst] = None /\ lstate'[dst] = "live"
               /\ heads'[src] = None /\ lstate'[src] = "live"
               /\ HeapFrame]_vars

\* C11 witness: push, pop, pop: the second pop found the list empty, returned no
\* value and left it empty, the one node allocated having been reclaimed before.
C11_Witness ==
  /\ First /\ last = Call("pop", NoVal)
  /\ head = None /\ mode = "list"
  /\ alloc = 1 /\ freed[1] = 1


\* C12: a call of next on a cursor with nodes left returns an element and leaves
\* one node fewer, a call with none left returns no value and leaves none, so a
\* cursor over n nodes yields n items and then signals the end; what an Iter or
\* IterMut has handed out and what it has left always add up to the length of
\* its list; and a cursor that has none left never has any again.
C12_CursorsEndOnce ==
  /\ [](/\ \A c \in CursorIds :
             iters[c].live =>
               Len(iters[c].seen) + Len(Path(iters[c].next)) = Len(Path(ListOf(c)))
        /\ im.live => Len(im.refs) + Len(Path(im.next)) = Len(Path(head)))
  /\ [][/\ \A c \in CursorIds :
             /\ (last'.op = "iter_next" /\ (iter_next(c) \/ rc_iter_next(c))) =>
                  /\ (last'.ret = NoVal) <=> (iters[c].next = None)
                  /\ Path(iters[c].next)' = DropFront(Path(iters[c].next))
                  /\ Len(iters'[c].seen) =
                       Len(iters[c].seen) + (IF iters[c].next = None THEN 0 ELSE 1)
             /\ (iters[c].live /\ iters[c].next = None /\ iters'[c].live) =>
                  iters'[c].next = None
        /\ iter_mut_next =>
             /\ (last'.ret = NoVal) <=> (im.next = None)
             /\ Path(im.next)' = DropFront(Path(im.next))
             /\ Len(im'.refs) = Len(im.refs) + (IF im.next = None THEN 0 ELSE 1)
        /\ (im.live /\ im.next = None /\ im'.live) => im'.next = None
        /\ into_iter_next =>
             /\ (last'.ret = NoVal) <=> (head = None)
             /\ Path(head)' = DropFront(Path(head))
             /\ Len(yielded') = Len(yielded) + (IF head = None THEN 0 ELSE 1)
        /\ (mode = "into_iter" /\ head = None /\ mode' = "into_iter") =>
             head' = None]_vars

\* C12 witness: a cursor over a persistent list of two elements has handed out
\* both, and a further call of next has returned no value.
C12_Witness ==
  /\ Third /\ last = Call("iter_next", NoVal)
  /\ \E c \in CursorIds :
       /\ iters[c].live /\ iters[c].next = None
       /\ Len(iters[c].seen) = 2
       /\ Len(Path(heads[iters[c].of])) = 2


\* the nodes of the owned list that are allocated and not reclaimed
LiveNodes == {a \in Allocated : freed[a] = 0}
\* the owning links (head, the teardown's cur_link, next of a live node) that hold node a
LinksTo(a) ==
  (IF head = a THEN 1 ELSE 0) + (IF cur_link = a THEN 1 ELSE 0)
    + Cardinality({b \in LiveNodes : next[b] = a})
NoDup(s) == \A i, j \in 1..Len(s) : s[i] = s[j] => i = j

\* C13: in every state of the owned list the chain from head visits no node
\* twice, every node that is allocated and not reclaimed is held by exactly one
\* link, the nodes of the list are exactly those nodes, and the chain is as long
\* as the values pushed and not yet popped are many: a push makes it one longer,
\* a pop that returns a value one shorter, and a pop that returns none, peek,
\* peek_mut and the IterMut operations leave it as it is.
C13_OwnedChainShape ==
  /\ [](First =>
          /\ NoDup(Path(head)) /\ Len(Path(head)) <= alloc
          /\ \A a \in LiveNodes : LinksTo(a) = 1
          /\ mode \in {"list", "into_iter"} =>
               /\ Range(Path(head)) = LiveNodes
               /\ Len(Path(head)) = Len(pending))
  /\ [][/\ \A e \in Elems :
             (last'.op = "push" /\ push(e)) =>
               Len(Path(head))' = Len(Path(head)) + 1
        /\ pop =>
             Len(Path(head))' =
               Len(Path(head)) - (IF last'.ret = NoVal THEN 0 ELSE 1)
        /\ (\/ peek \/ peek_mut \/ peek_mut_set(Fresh)
            \/ iter_mut \/ iter_mut_next \/ iter_mut_end
            \/ \E k \in 1..MaxNodes : iter_mut_write(k, Fresh)) =>
             Path(head)' = Path(head)]_vars

\* C13 witness: push, push, pop, push: three nodes were allocated, one was
\* reclaimed, and the chain is the third node followed by the first.
C13_Witness ==
  /\ First /\ mode = "list" /\ last.op = "push"
  /\ alloc = 3 /\ freed[2] = 1
  /\ Path(head) = <<3, 1>>


\* C14 as stated: no step of the persistent list, a step of a list's destruction
\* included, changes the next link of a node that has been constructed, nor its
\* element while the node exists. The teardown loop breaks it: the iteration
\* that gets the node out of its Rc runs node.next.take(), which empties the
\* node's next link before the node goes out of scope.
C14_NeverMutated ==
  [][Third =>
       \A a \in Allocated :
         /\ next'[a] = next[a]
         /\ freed'[a] = 0 => elem'[a] = elem[a]]_vars

\* C14: no step changes the element or the next link of a node that is still
\* referenced after it; new, head, prepend, tail and the cursors change no
\* existing node at all; and the one change made to a constructed node is the
\* teardown emptying the next link of the node whose last reference it holds,
\* in the loop iteration that reclaims that node.
C14_SharedNodesImmutable ==
  [][Third =>
       \A a \in Allocated :
         /\ (next'[a] # next[a] \/ elem'[a] # elem[a]) =>
              /\ rc_drop_step
              /\ a = drop_head /\ rc[a] = 1 /\ rc'[a] = 0
              /\ freed'[a] = freed[a] + 1
              /\ next'[a] = None
         /\ rc'[a] >= 1 => (next'[a] = next[a] /\ elem'[a] = elem[a])]_vars

\* C14 witness: a teardown has taken an exclusively owned node with a successor
\* out of its Rc, emptied its next link and reclaimed it, and now stands at the
\* successor, which another list shares and which is as it was constructed.
C14_Witness ==
  /\ Third /\ ~Idle /\ steps = 1
  /\ drop_head # None /\ rc[drop_head] = 2 /\ elem[drop_head] # NoVal
  /\ \E a \in Allocated : freed[a] = 1 /\ next[a] = None /\ a # drop_head


\* C15: a step that frees a node frees that node only, and it is a pop, a next
\* of the IntoIter or a teardown iteration; the node's next link has been moved
\* out of it, so its successor is held by the list head (pop) or by the
\* teardown's local variable, with the same strong count as before on the
\* persistent list, and is neither freed nor changed by that step.
C15_DetachedBeforeFreed ==
  [][\A a \in Addrs :
       freed'[a] > freed[a] =>
         LET s == next[a] IN
           /\ pop \/ into_iter_next \/ drop_step \/ rc_drop_step
           /\ freed' = [freed EXCEPT ![a] = freed[a] + 1]
           /\ next'[a] = None
           /\ s # None =>
                /\ freed'[s] = 0
                /\ next'[s] = next[s] /\ elem'[s] = elem[s]
                /\ First /\ mode # "dropping" => head' = s
                /\ First /\ mode = "dropping" => cur_link' = s
                /\ Third => (drop_head' = s /\ rc'[s] = rc[s])]_vars

\* C15 witness: push 1, push 2, pop: the node of 2 was freed, and the node of 1,
\* its successor, is now held by head and is as it was.
C15_Witness ==
  /\ First /\ last = Call("pop", 2) /\ alloc = 2
  /\ freed[2] = 1 /\ freed[1] = 0
  /\ head = 1 /\ elem[1] = 1


\* the links of the persistent list that point to node a: heads of live lists,
\* next links of unreclaimed nodes, and the local `head` of a teardown in progress
RcLinksTo(a) ==
  Cardinality({l \in Slots : lstate[l] = "live" /\ heads[l] = a})
    + Cardinality({b \in Allocated : freed[b] = 0 /\ next[b] = a})
    + (IF drop_head = a THEN 1 ELSE 0)

\* C16: in every state of the persistent list the strong count of each node that
\* is allocated and not reclaimed is the number of links that point to it and is
\* at least one, a reclaimed node has count zero, and no node reached from the
\* head of a live list has been reclaimed.
C16_CountIsLinks ==
  Third =>
    /\ \A a \in Allocated :
         /\ freed[a] = 0 => (rc[a] = RcLinksTo(a) /\ rc[a] >= 1)
         /\ freed[a] # 0 => rc[a] = 0
    /\ \A l \in Live : \A a \in Range(Path(heads[l])) : freed[a] = 0

\* C16 witness: one node is the head of two lists and the successor of the front
\* node of a third, and its count is three.
C16_Witness ==
  /\ Third /\ Idle
  /\ \E a \in Allocated :
       /\ rc[a] = 3 /\ freed[a] = 0
       /\ Cardinality({l \in Live : heads[l] = a}) = 2
       /\ \E b \in Allocated : freed[b] = 0 /\ next[b] = a


\* C17: on the persistent list no node is ever reclaimed twice and none that was
\* not allocated is reclaimed, and whenever no list is left (every list built
\* has been destroyed, in whatever order) every node ever allocated has been
\* reclaimed exactly once and no strong count is left.
C17_AllGoneAllReclaimed ==
  Third =>
    /\ \A a \in Addrs : freed[a] <= 1
    /\ \A a \in Addrs \ Allocated : freed[a] = 0
    /\ (\A l \in Slots : lstate[l] = "none") =>
         \A a \in Allocated : freed[a] = 1 /\ rc[a] = 0

\* C17 witness: three nodes were allocated, every list has been destroyed, and
\* each of the three nodes has been reclaimed once.
C17_Witness ==
  /\ Third /\ \A l \in Slots : lstate[l] = "none"
  /\ alloc = 3 /\ \A a \in Allocated : freed[a] = 1

====
